---- MODULE Spec2Model ----
(***************************************************************************)
(* Model of the popup widget of rg3d-ui (src/src/popup.rs): the open/close *)
(* state machine, the placement resolution, the picking-restriction stack  *)
(* protocol and the content protocol, driven by a FIFO message queue and   *)
(* raw OS events.                                                          *)
(*                                                                         *)
(* Coordinates are f32 in the code.  The model uses integers and draws     *)
(* the screen and widget sizes from even numbers, so that scale(0.5) is    *)
(* exact.                                                                  *)
(***************************************************************************)
EXTENDS Integers, Sequences, FiniteSets, TLC

\* ---------------------------------------------------------------- bounds
\* Callers enqueue at most MaxSent messages in one behaviour; this bounds
\* the queue, the restriction stack and the push/pop counters.
MaxSent == 3

\* ---------------------------------------------------------------- handles
NONE == 0

Popups == {1, 2}

ContentNodes == {5, 6}

\* nodes of other widget kinds that may capture the mouse
OtherNodes == {7}

BuiltBody(p) == p + 2

BuiltContent(p) == IF p = 1 THEN 5 ELSE NONE

\* ---------------------------------------------------------------- vectors
ZERO == <<0, 0>>

VecSub(a, b) == <<a[1] - b[1], a[2] - b[2]>>

VecScaleHalf(a) == <<a[1] \div 2, a[2] \div 2>>

ScreenSizes == {<<8, 6>>}

ActualSizes == {<<2, 2>>, <<4, 2>>}

ScreenPositions == {<<2, 2>>}

\* one point outside and one strictly inside every popup's screen bounds
CursorPositions == {<<0, 0>>, <<3, 3>>}

PositionArgs == {<<6, 2>>}

\* Rect::contains of the widget's screen bounds (position, size)
RectContains(pos, size, pt) ==
    /\ pt[1] >= pos[1] /\ pt[1] <= pos[1] + size[1]
    /\ pt[2] >= pos[2] /\ pt[2] <= pos[2] + size[2]

\* ---------------------------------------------------------------- Placement
Placements ==
    {<<"LeftTop">>, <<"RightTop">>, <<"Center">>, <<"LeftBottom">>,
     <<"RightBottom">>, <<"Cursor">>}
    \cup {<<"Position", v>> : v \in PositionArgs}

\* ---------------------------------------------------------------- messages
OpenData == <<"Popup", "Open">>

CloseData == <<"Popup", "Close">>

ContentData(c) == <<"Popup", "Content", c>>

PlacementData(pl) == <<"Popup", "Placement", pl>>

TopMostData == <<"Widget", "TopMost">>

UiMessage(d, dest) == [data |-> d, destination |-> dest]

ButtonStates == {"Pressed", "Released"}

VARIABLES
    placement, stays_open, is_open, content, body,      \* Popup fields
    visibility, desired_local_position, actual_size,    \* Widget fields
    screen_position,
    screen_size, cursor_position,                       \* UserInterface
    picking_restriction_stack, captured_node, queue,
    calls,      \* calls made on the UI and the widget by the last step
    lastOp,     \* the operation performed by the last step
    pushes, pops,   \* push/pop_picking_restriction calls made by each popup
    sent,       \* messages enqueued by callers so far
    nodes, parent,  \* UserInterface node graph: live handles, parent links
    copied,     \* the node returned by the last raw_copy, if any
    panicked    \* an unwrap() failed: the thread has aborted

popupVars == <<placement, stays_open, is_open, content, body>>

widgetVars == <<visibility, desired_local_position, actual_size, screen_position>>

uiVars == <<screen_size, cursor_position, picking_restriction_stack, captured_node, queue>>

histVars == <<calls, lastOp, pushes, pops, sent>>

graphVars == <<nodes, parent>>

remapVars == <<copied, panicked>>

vars == <<popupVars, widgetVars, uiVars, histVars, graphVars, remapVars>>

\* ---------------------------------------------------------------- UI manager
top_picking_restriction ==
    IF picking_restriction_stack = <<>> THEN NONE
    ELSE picking_restriction_stack[Len(picking_restriction_stack)]

push_picking_restriction(stack, h) == Append(stack, h)

pop_picking_restriction(stack) ==
    IF stack = <<>> THEN stack ELSE SubSeq(stack, 1, Len(stack) - 1)

screen_bounds_contains(p, pt) ==
    RectContains(screen_position[p], actual_size[p], pt)

\* the popup whose handler a routed message reaches: the destination itself
\* or the popup above a destination inside its sub-tree
Receivers(m) == {p \in Popups : m.destination \in {p, body[p]}}

Destinations == Popups \cup {body[1]}

\* ---------------------------------------------------------------- node graph
\* the nodes alive after the builders ran: the popups, their bodies, the
\* content nodes created by the caller and the nodes of other widgets
BuiltNodes ==
    Popups \cup {BuiltBody(p) : p \in Popups} \cup ContentNodes \cup OtherNodes

\* with_child(body) under the popup, with_child(content) under the body
BuiltParent(n) ==
    IF \E p \in Popups : n = BuiltBody(p)
    THEN CHOOSE p \in Popups : n = BuiltBody(p)
    ELSE IF \E p \in Popups : n # NONE /\ n = BuiltContent(p)
    THEN BuiltBody(CHOOSE p \in Popups : n = BuiltContent(p))
    ELSE NONE

RECURSIVE Descends(_, _, _)
\* n lies in the sub-tree of h
Descends(par, n, h) ==
    \/ n = h
    \/ n \in DOMAIN par /\ par[n] # NONE /\ par[n] # n /\ Descends(par, par[n], h)

\* ui.remove_node: the node and its sub-tree leave the pool
remove_node(ns, par, h) ==
    {n \in ns : ~Descends(par, n, h)}

\* ui.link_nodes: a live child is re-parented under a live parent
link_nodes(ns, par, child, to) ==
    IF child \in ns /\ to \in ns THEN [par EXCEPT ![child] = to] ELSE par

\* ---------------------------------------------------------------- builder
\* PopupBuilder::build: hidden, closed, nothing queued after the flush
Built(so, pl, sz) ==
    /\ placement = pl
    /\ stays_open = so
    /\ is_open = [p \in Popups |-> FALSE]
    /\ content = [p \in Popups |-> BuiltContent(p)]
    /\ body = [p \in Popups |-> BuiltBody(p)]
    /\ visibility = [p \in Popups |-> FALSE]
    /\ desired_local_position = [p \in Popups |-> ZERO]
    /\ actual_size = sz
    /\ screen_position \in [Popups -> ScreenPositions]
    /\ screen_size \in ScreenSizes
    /\ cursor_position = ZERO
    /\ picking_restriction_stack = <<>>
    /\ captured_node = NONE
    /\ queue = <<>>
    /\ calls = <<>>
    /\ lastOp = <<"build", NONE>>
    /\ pushes = [p \in Popups |-> 0]
    /\ pops = [p \in Popups |-> 0]
    /\ sent = 0
    /\ nodes = BuiltNodes
    /\ parent = [n \in BuiltNodes |-> BuiltParent(n)]
    /\ copied = <<>>
    /\ panicked = FALSE

Init ==
    \E so \in [Popups -> BOOLEAN], pl \in [Popups -> {<<"Cursor">>}],
       sz \in [Popups -> {<<2, 2>>}] :
        Built(so, pl, sz)

\* ---------------------------------------------------------------- placement
\* the placement match with the RightTop and LeftBottom arms exchanged
PlacementPosition_armsSwapped(pl, size, screen, cursor) ==
    CASE pl[1] = "LeftTop" -> ZERO
      [] pl[1] = "LeftBottom" -> <<screen[1] - size[1], 0>>
      [] pl[1] = "Center" -> VecScaleHalf(VecSub(screen, size))
      [] pl[1] = "RightTop" -> <<0, screen[2] - size[2]>>
      [] pl[1] = "RightBottom" -> VecSub(screen, size)
      [] pl[1] = "Cursor" -> cursor
      [] pl[1] = "Position" -> pl[2]

\* the match on self.placement of the Open handler
PlacementPosition(pl, size, screen, cursor) ==
    CASE pl[1] = "LeftTop" -> ZERO
      [] pl[1] = "RightTop" -> <<screen[1] - size[1], 0>>
      [] pl[1] = "Center" -> VecScaleHalf(VecSub(screen, size))
      [] pl[1] = "LeftBottom" -> <<0, screen[2] - size[2]>>
      [] pl[1] = "RightBottom" -> VecSub(screen, size)
      [] pl[1] = "Cursor" -> cursor
      [] pl[1] = "Position" -> pl[2]

\* ---------------------------------------------------------------- handlers
\* HandleOpen pushing without looking at stays_open
HandleOpen_ignoresStaysOpen(p) ==
    LET doPush == top_picking_restriction # p IN
    /\ is_open' = [is_open EXCEPT ![p] = TRUE]
    /\ visibility' = [visibility EXCEPT ![p] = TRUE]
    /\ picking_restriction_stack' =
          IF doPush THEN push_picking_restriction(picking_restriction_stack, p)
          ELSE picking_restriction_stack
    /\ pushes' = IF doPush THEN [pushes EXCEPT ![p] = @ + 1] ELSE pushes
    /\ calls' = IF doPush THEN <<<<"push_picking_restriction", p>>>> ELSE <<>>
    /\ queue' = Append(Tail(queue), UiMessage(TopMostData, p))
    /\ desired_local_position' =
          [desired_local_position EXCEPT ![p] =
              PlacementPosition(placement[p], actual_size[p], screen_size,
                                cursor_position)]
    /\ UNCHANGED <<placement, stays_open, content, body, actual_size,
                   screen_position, screen_size, cursor_position,
                   captured_node, pops, graphVars, remapVars>>

\* HandleOpen leaving the widget hidden
HandleOpen_staysHidden(p) ==
    LET doPush == ~stays_open[p] /\ top_picking_restriction # p IN
    /\ is_open' = [is_open EXCEPT ![p] = TRUE]
    /\ picking_restriction_stack' =
          IF doPush THEN push_picking_restriction(picking_restriction_stack, p)
          ELSE picking_restriction_stack
    /\ pushes' = IF doPush THEN [pushes EXCEPT ![p] = @ + 1] ELSE pushes
    /\ calls' = IF doPush THEN <<<<"push_picking_restriction", p>>>> ELSE <<>>
    /\ queue' = Append(Tail(queue), UiMessage(TopMostData, p))
    /\ desired_local_position' =
          [desired_local_position EXCEPT ![p] =
              PlacementPosition(placement[p], actual_size[p], screen_size,
                                cursor_position)]
    /\ UNCHANGED <<placement, stays_open, content, body, visibility,
                   actual_size, screen_position, screen_size, cursor_position,
                   captured_node, pops, graphVars, remapVars>>

HandleOpen(p) ==
    LET doPush == ~stays_open[p] /\ top_picking_restriction # p IN
    /\ is_open' = [is_open EXCEPT ![p] = TRUE]
    /\ visibility' = [visibility EXCEPT ![p] = TRUE]
    /\ picking_restriction_stack' =
          IF doPush THEN push_picking_restriction(picking_restriction_stack, p)
          ELSE picking_restriction_stack
    /\ pushes' = IF doPush THEN [pushes EXCEPT ![p] = @ + 1] ELSE pushes
    /\ calls' = IF doPush THEN <<<<"push_picking_restriction", p>>>> ELSE <<>>
    /\ queue' = Append(Tail(queue), UiMessage(TopMostData, p))
    /\ desired_local_position' =
          [desired_local_position EXCEPT ![p] =
              PlacementPosition(placement[p], actual_size[p], screen_size,
                                cursor_position)]
    /\ UNCHANGED <<placement, stays_open, content, body, actual_size,
                   screen_position, screen_size, cursor_position,
                   captured_node, pops, graphVars, remapVars>>

\* HandleClose leaving is_open set
HandleClose_staysOpen(p) ==
    LET doPop == ~stays_open[p]
        doRelease == captured_node = p IN
    /\ visibility' = [visibility EXCEPT ![p] = FALSE]
    /\ picking_restriction_stack' =
          IF doPop THEN pop_picking_restriction(picking_restriction_stack)
          ELSE picking_restriction_stack
    /\ pops' = IF doPop THEN [pops EXCEPT ![p] = @ + 1] ELSE pops
    /\ captured_node' = IF doRelease THEN NONE ELSE captured_node
    /\ calls' = (IF doPop THEN <<<<"pop_picking_restriction">>>> ELSE <<>>)
                \o (IF doRelease THEN <<<<"release_mouse_capture">>>> ELSE <<>>)
    /\ queue' = Tail(queue)
    /\ UNCHANGED <<placement, stays_open, is_open, content, body,
                   desired_local_position, actual_size, screen_position,
                   screen_size, cursor_position, pushes, graphVars,
                   remapVars>>

\* HandleClose releasing the mouse capture whoever holds it
HandleClose_releasesAny(p) ==
    LET doPop == ~stays_open[p]
        doRelease == captured_node # NONE IN
    /\ is_open' = [is_open EXCEPT ![p] = FALSE]
    /\ visibility' = [visibility EXCEPT ![p] = FALSE]
    /\ picking_restriction_stack' =
          IF doPop THEN pop_picking_restriction(picking_restriction_stack)
          ELSE picking_restriction_stack
    /\ pops' = IF doPop THEN [pops EXCEPT ![p] = @ + 1] ELSE pops
    /\ captured_node' = IF doRelease THEN NONE ELSE captured_node
    /\ calls' = (IF doPop THEN <<<<"pop_picking_restriction">>>> ELSE <<>>)
                \o (IF doRelease THEN <<<<"release_mouse_capture">>>> ELSE <<>>)
    /\ queue' = Tail(queue)
    /\ UNCHANGED <<placement, stays_open, content, body,
                   desired_local_position, actual_size, screen_position,
                   screen_size, cursor_position, pushes, graphVars,
                   remapVars>>

HandleClose(p) ==
    LET doPop == ~stays_open[p]
        doRelease == captured_node = p IN
    /\ is_open' = [is_open EXCEPT ![p] = FALSE]
    /\ visibility' = [visibility EXCEPT ![p] = FALSE]
    /\ picking_restriction_stack' =
          IF doPop THEN pop_picking_restriction(picking_restriction_stack)
          ELSE picking_restriction_stack
    /\ pops' = IF doPop THEN [pops EXCEPT ![p] = @ + 1] ELSE pops
    /\ captured_node' = IF doRelease THEN NONE ELSE captured_node
    /\ calls' = (IF doPop THEN <<<<"pop_picking_restriction">>>> ELSE <<>>)
                \o (IF doRelease THEN <<<<"release_mouse_capture">>>> ELSE <<>>)
    /\ queue' = Tail(queue)
    /\ UNCHANGED <<placement, stays_open, content, body,
                   desired_local_position, actual_size, screen_position,
                   screen_size, cursor_position, pushes, graphVars,
                   remapVars>>

HandleContent(p, new) ==
    LET kept == IF content[p] # NONE THEN remove_node(nodes, parent, content[p])
                ELSE nodes
        kparent == [n \in kept |-> parent[n]]
    IN
    /\ content' = [content EXCEPT ![p] = new]
    /\ nodes' = kept
    /\ parent' = link_nodes(kept, kparent, new, body[p])
    /\ calls' = (IF content[p] # NONE THEN <<<<"remove_node", content[p]>>>>
                 ELSE <<>>)
                \o <<<<"link_nodes", new, body[p]>>>>
    /\ queue' = Tail(queue)
    /\ UNCHANGED <<placement, stays_open, is_open, body, widgetVars,
                   screen_size, cursor_position, picking_restriction_stack,
                   captured_node, pushes, pops, remapVars>>

\* HandlePlacement moving the popup to the new placement at once
HandlePlacement_repositions(p, pl) ==
    /\ placement' = [placement EXCEPT ![p] = pl]
    /\ desired_local_position' =
          [desired_local_position EXCEPT ![p] =
              PlacementPosition(pl, actual_size[p], screen_size,
                                cursor_position)]
    /\ calls' = <<<<"invalidate_layout", p>>>>
    /\ queue' = Tail(queue)
    /\ UNCHANGED <<stays_open, is_open, content, body, visibility,
                   actual_size, screen_position,
                   screen_size, cursor_position, picking_restriction_stack,
                   captured_node, pushes, pops, graphVars, remapVars>>

HandlePlacement(p, pl) ==
    /\ placement' = [placement EXCEPT ![p] = pl]
    /\ calls' = <<<<"invalidate_layout", p>>>>
    /\ queue' = Tail(queue)
    /\ UNCHANGED <<stays_open, is_open, content, body, widgetVars,
                   screen_size, cursor_position, picking_restriction_stack,
                   captured_node, pushes, pops, graphVars, remapVars>>

\* the `_ => {}` arm: another destination or not a Popup message
HandleIgnored ==
    /\ calls' = <<>>
    /\ queue' = Tail(queue)
    /\ UNCHANGED <<popupVars, widgetVars, screen_size, cursor_position,
                   picking_restriction_stack, captured_node, pushes, pops,
                   graphVars, remapVars>>

handle_routed_message(p, m) ==
    /\ lastOp' = <<"handle_routed_message", p>>
    /\ sent' = sent
    /\ IF m.data[1] = "Popup" /\ m.destination = p
       THEN CASE m.data[2] = "Open" -> HandleOpen(p)
              [] m.data[2] = "Close" -> HandleClose(p)
              [] m.data[2] = "Content" -> HandleContent(p, m.data[3])
              [] m.data[2] = "Placement" -> HandlePlacement(p, m.data[3])
       ELSE HandleIgnored

\* one step of flush_messages: the oldest message is routed to its receiver
DeliverMessage ==
    /\ queue # <<>>
    /\ \E p \in Receivers(Head(queue)) : handle_routed_message(p, Head(queue))

\* ---------------------------------------------------------------- methods
send_message(m) ==
    /\ sent < MaxSent
    /\ sent' = sent + 1
    /\ queue' = Append(queue, m)

\* open() without the is_open guard
open_unguarded(p) ==
    /\ lastOp' = <<"open", p>>
    /\ calls' = <<<<"invalidate_layout", p>>>>
    /\ send_message(UiMessage(OpenData, p))
    /\ UNCHANGED <<popupVars, widgetVars, screen_size, cursor_position,
                   picking_restriction_stack, captured_node, pushes, pops,
                   graphVars, remapVars>>

open(p) ==
    /\ lastOp' = <<"open", p>>
    /\ IF ~is_open[p]
       THEN /\ calls' = <<<<"invalidate_layout", p>>>>
            /\ send_message(UiMessage(OpenData, p))
       ELSE /\ calls' = <<>>
            /\ UNCHANGED <<queue, sent>>
    /\ UNCHANGED <<popupVars, widgetVars, screen_size, cursor_position,
                   picking_restriction_stack, captured_node, pushes, pops,
                   graphVars, remapVars>>

\* close() without the is_open guard
CloseBody_unguarded(p) ==
    /\ calls' = <<<<"invalidate_layout", p>>>>
    /\ send_message(UiMessage(CloseData, p))

CloseBody(p) ==
    IF is_open[p]
    THEN /\ calls' = <<<<"invalidate_layout", p>>>>
         /\ send_message(UiMessage(CloseData, p))
    ELSE /\ calls' = <<>>
         /\ UNCHANGED <<queue, sent>>

\* close() that closes and hides the popup at once instead of sending Close
close_synchronous(p) ==
    /\ lastOp' = <<"close", p>>
    /\ calls' = IF is_open[p] THEN <<<<"invalidate_layout", p>>>> ELSE <<>>
    /\ is_open' = [is_open EXCEPT ![p] = FALSE]
    /\ visibility' = [visibility EXCEPT ![p] = FALSE]
    /\ UNCHANGED <<placement, stays_open, content, body,
                   desired_local_position, actual_size, screen_position,
                   uiVars, pushes, pops, sent, graphVars, remapVars>>

close(p) ==
    /\ lastOp' = <<"close", p>>
    /\ CloseBody(p)
    /\ UNCHANGED <<popupVars, widgetVars, screen_size, cursor_position,
                   picking_restriction_stack, captured_node, pushes, pops,
                   graphVars, remapVars>>

set_placement(p, pl) ==
    /\ lastOp' = <<"set_placement", p>>
    /\ IF placement[p] # pl
       THEN /\ placement' = [placement EXCEPT ![p] = pl]
            /\ calls' = <<<<"invalidate_layout", p>>>>
            /\ send_message(UiMessage(PlacementData(pl), p))
       ELSE /\ calls' = <<>>
            /\ UNCHANGED <<placement, queue, sent>>
    /\ UNCHANGED <<stays_open, is_open, content, body, widgetVars,
                   screen_size, cursor_position, picking_restriction_stack,
                   captured_node, pushes, pops, graphVars, remapVars>>

\* handle_os_event without the top-of-stack test
handle_os_event_anyTop(p, state) ==
    /\ lastOp' = <<"handle_os_event", p, state>>
    /\ IF /\ state = "Pressed"
          /\ is_open[p]
          /\ ~screen_bounds_contains(p, cursor_position)
          /\ ~stays_open[p]
       THEN CloseBody(p)
       ELSE /\ calls' = <<>>
            /\ UNCHANGED <<queue, sent>>
    /\ UNCHANGED <<popupVars, widgetVars, screen_size, cursor_position,
                   picking_restriction_stack, captured_node, pushes, pops,
                   graphVars, remapVars>>

\* OsEvent::MouseInput { state, .. } handed to popup p
handle_os_event(p, state) ==
    /\ lastOp' = <<"handle_os_event", p, state>>
    /\ IF /\ state = "Pressed"
          /\ top_picking_restriction = p
          /\ is_open[p]
          /\ ~screen_bounds_contains(p, cursor_position)
          /\ ~stays_open[p]
       THEN CloseBody(p)
       ELSE /\ calls' = <<>>
            /\ UNCHANGED <<queue, sent>>
    /\ UNCHANGED <<popupVars, widgetVars, screen_size, cursor_position,
                   picking_restriction_stack, captured_node, pushes, pops,
                   graphVars, remapVars>>

\* ---------------------------------------------------------------- copy, remap
\* Control::raw_copy: the copy returned for popup p
raw_copy(p) ==
    /\ lastOp' = <<"raw_copy", p>>
    /\ calls' = <<>>
    /\ copied' = <<[source |-> p,
                    visibility |-> visibility[p],
                    placement |-> placement[p],
                    stays_open |-> FALSE,
                    is_open |-> FALSE,
                    content |-> content[p],
                    body |-> body[p]]>>
    /\ UNCHANGED <<popupVars, widgetVars, uiVars, pushes, pops, sent,
                   graphVars, panicked>>

\* handles of the graph a popup is copied into
NewHandle(h) == h + 10

\* the nodes a NodeHandleMapping may have as keys; a table with key set
\* `keys` maps each key h to NewHandle(h)
RemapKeys == {BuiltBody(p) : p \in Popups} \cup {BuiltContent(1)}

\* resolve that keeps the old body when the table has no entry for it
resolve_keepsBody(p, keys) ==
    /\ lastOp' = <<"resolve", p, keys>>
    /\ calls' = <<>>
    /\ content' = IF content[p] \in keys
                  THEN [content EXCEPT ![p] = NewHandle(content[p])]
                  ELSE content
    /\ body' = IF body[p] \in keys
               THEN [body EXCEPT ![p] = NewHandle(body[p])]
               ELSE body
    /\ panicked' = FALSE
    /\ UNCHANGED <<placement, stays_open, is_open, widgetVars, uiVars,
                   pushes, pops, sent, graphVars, copied>>

\* Control::resolve with a table whose keys are `keys`
resolve(p, keys) ==
    /\ lastOp' = <<"resolve", p, keys>>
    /\ calls' = <<>>
    /\ content' = IF content[p] \in keys
                  THEN [content EXCEPT ![p] = NewHandle(content[p])]
                  ELSE content
    /\ IF body[p] \in keys
       THEN /\ body' = [body EXCEPT ![p] = NewHandle(body[p])]
            /\ panicked' = FALSE
       ELSE /\ body' = body
            /\ panicked' = TRUE
    /\ UNCHANGED <<placement, stays_open, is_open, widgetVars, uiVars,
                   pushes, pops, sent, graphVars, copied>>

\* ---------------------------------------------------------------- environment
\* any other OS event (here a cursor move, which the UI records): the popup's
\* handler does not match it
CursorMoved(pos) ==
    /\ cursor_position # pos
    /\ cursor_position' = pos
    /\ lastOp' = <<"cursor_moved", NONE>>
    /\ calls' = <<>>
    /\ UNCHANGED <<popupVars, widgetVars, screen_size,
                   picking_restriction_stack, captured_node, queue,
                   pushes, pops, sent, graphVars, remapVars>>

\* another widget (or the popup's own content) takes or drops mouse capture
CaptureMouse(h) ==
    /\ captured_node # h
    /\ captured_node' = h
    /\ lastOp' = <<"capture_mouse", h>>
    /\ calls' = <<>>
    /\ UNCHANGED <<popupVars, widgetVars, screen_size, cursor_position,
                   picking_restriction_stack, queue, pushes, pops, sent,
                   graphVars, remapVars>>

\* another overlay takes the picking restriction for itself, once, and not
\* over a popup that is being closed
PushOverlay(h) ==
    /\ \A i \in 1..Len(picking_restriction_stack) :
           picking_restriction_stack[i] # h
    /\ \A i \in 1..Len(queue) : queue[i].data # CloseData
    /\ picking_restriction_stack' =
          push_picking_restriction(picking_restriction_stack, h)
    /\ lastOp' = <<"push_overlay", h>>
    /\ calls' = <<>>
    /\ UNCHANGED <<popupVars, widgetVars, screen_size, cursor_position,
                   captured_node, queue, pushes, pops, sent, graphVars,
                   remapVars>>

\* the caller's nesting obligation: a popup is asked to close only while it
\* is the innermost overlay (top of the stack, no other Open on its way)
Innermost(p) ==
    /\ top_picking_restriction = p
    /\ \A i \in 1..Len(queue) : queue[i].data # OpenData

\* other code posts a routed Popup message directly
PostMessage(m) ==
    /\ lastOp' = <<"post", NONE>>
    /\ calls' = <<>>
    /\ send_message(m)
    /\ UNCHANGED <<popupVars, widgetVars, screen_size, cursor_position,
                   picking_restriction_stack, captured_node, pushes, pops,
                   graphVars, remapVars>>

\* Open and Close for each popup, and an Open addressed to a node below one
LifecycleMessages ==
    {UiMessage(d, p) : d \in {OpenData, CloseData}, p \in Popups}
    \cup {UiMessage(OpenData, h) : h \in Destinations \ Popups}

Next ==
    \/ \E p \in Popups : open(p)
    \/ \E p \in Popups : close(p)
    \/ \E p \in Popups, s \in ButtonStates : handle_os_event(p, s)
    \/ \E pos \in CursorPositions : CursorMoved(pos)
    \/ \E m \in LifecycleMessages : PostMessage(m)
    \/ DeliverMessage

Spec == Init /\ [][Next]_vars

\* direct calls and raw input only
NextInput ==
    \/ \E p \in Popups : open(p)
    \/ \E p \in Popups : close(p)
    \/ \E p \in Popups, s \in ButtonStates : handle_os_event(p, s)
    \/ \E pos \in CursorPositions : CursorMoved(pos)
    \/ DeliverMessage

\* flush_messages drains the queue: a queued message is eventually delivered
FairSpec == Init /\ [][NextInput]_vars /\ WF_vars(DeliverMessage)

\* popups built with any placement and laid out at any actual size
InitPlaced ==
    \E so \in [Popups -> {FALSE}], pl \in [Popups -> Placements],
       sz \in [Popups -> ActualSizes] :
        Built(so, pl, sz)

ContentMessages ==
    {UiMessage(ContentData(c), p) : c \in ContentNodes \cup {NONE}, p \in Popups}

\* content replaced while the popups open and close
NextContent ==
    \/ \E p \in Popups : open(p)
    \/ \E p \in Popups : close(p)
    \/ \E m \in ContentMessages : PostMessage(m)
    \/ DeliverMessage

SpecContent == Init /\ [][NextContent]_vars

\* placement resolved at each Open while the cursor moves
NextPlacement ==
    \/ \E p \in Popups : open(p)
    \/ \E p \in Popups : close(p)
    \/ \E pos \in CursorPositions : CursorMoved(pos)
    \/ DeliverMessage

SpecPlacement == InitPlaced /\ [][NextPlacement]_vars

\* direct calls with mouse capture moving between the popups and another node
NextCapture ==
    \/ \E p \in Popups : open(p)
    \/ \E p \in Popups : close(p)
    \/ \E h \in Popups \cup OtherNodes \cup {NONE} : CaptureMouse(h)
    \/ DeliverMessage

SpecCapture == Init /\ [][NextCapture]_vars

\* the placements callers switch between after construction
SetPlacements == {<<"RightBottom">>, <<"Cursor">>}

\* one routed message of each Popup kind for each popup
RoutedMessages ==
    {UiMessage(d, p) :
        d \in {OpenData, CloseData, ContentData(NONE)}
              \cup {PlacementData(pl) : pl \in SetPlacements},
        p \in Popups}

\* every way a built popup is driven: calls, routed messages, mouse buttons
NextDriven ==
    \/ \E p \in Popups : open(p)
    \/ \E p \in Popups : close(p)
    \/ \E p \in Popups, pl \in SetPlacements : set_placement(p, pl)
    \/ \E m \in RoutedMessages : PostMessage(m)
    \/ \E p \in Popups, s \in ButtonStates : handle_os_event(p, s)
    \/ DeliverMessage

\* popups built with the builder's defaults: stays_open false, at the cursor
InitDefault ==
    \E so \in [Popups -> {FALSE}], pl \in [Popups -> {<<"Cursor">>}],
       sz \in [Popups -> {<<2, 2>>}] :
        Built(so, pl, sz)

SpecDriven == InitDefault /\ [][NextDriven]_vars

\* popups opened over another overlay and closed in LIFO order
NextNested ==
    \/ \E h \in OtherNodes : PushOverlay(h)
    \/ \E p \in Popups : open(p)
    \/ \E p \in Popups : Innermost(p) /\ close(p)
    \/ \E p \in Popups, s \in ButtonStates :
          Innermost(p) /\ handle_os_event(p, s)
    \/ DeliverMessage

SpecNested == InitDefault /\ [][NextNested]_vars

\* popups opened, copied and fixed up against a remapping table; a
\* failed unwrap() ends the run
NextRemap ==
    /\ ~panicked
    /\ \/ \E p \in Popups : open(p)
       \/ \E p \in Popups : raw_copy(p)
       \/ \E p \in Popups, keys \in SUBSET RemapKeys : resolve(p, keys)
       \/ DeliverMessage

SpecRemap == Init /\ [][NextRemap]_vars

\* ---------------------------------------------------------------- helpers
Last(q) == q[Len(q)]

PopupMessagePending(p) ==
    \E i \in 1..Len(queue) :
        queue[i].data[1] = "Popup" /\ queue[i].destination = p

\* the step is popup p's handler receiving message m
Handles(p, m) ==
    /\ queue # <<>>
    /\ Head(queue) = m
    /\ lastOp' = <<"handle_routed_message", p>>

OutsidePressCondition(p) ==
    /\ top_picking_restriction = p
    /\ is_open[p]
    /\ ~stays_open[p]
    /\ ~screen_bounds_contains(p, cursor_position)

\* ---------------------------------------------------------------- C1
\* C1: a popup with stays_open=false that is Closed with no Popup message
\* pending has made as many pop_picking_restriction calls as
\* push_picking_restriction calls.
C1_PushesEqualPops ==
    \A p \in Popups :
        (~stays_open[p] /\ ~is_open[p] /\ ~PopupMessagePending(p))
            => pops[p] = pushes[p]

\* ---------------------------------------------------------------- C2
\* C2: a Close message handled by a popup that is already Closed does
\* nothing: no pop, no capture release, is_open and visibility unchanged.
C2_CloseWhenClosedIsNoOp ==
    [][\A p \in Popups :
        (Handles(p, UiMessage(CloseData, p)) /\ ~is_open[p])
            => /\ calls' = <<>>
               /\ picking_restriction_stack' = picking_restriction_stack
               /\ captured_node' = captured_node
               /\ is_open' = is_open
               /\ visibility' = visibility]_vars

\* ---------------------------------------------------------------- C3
\* C3: an Open message is processed only when its destination is this popup
\* and the popup is Closed; handled by a popup that is already Open it does
\* nothing: no push, no TopMost request, no change of the desired position.
C3_OpenWhenOpenIsNoOp ==
    [][\A p \in Popups, d \in Destinations :
        (Handles(p, UiMessage(OpenData, d)) /\ (d # p \/ is_open[p]))
            => /\ calls' = <<>>
               /\ picking_restriction_stack' = picking_restriction_stack
               /\ queue' = Tail(queue)
               /\ desired_local_position' = desired_local_position]_vars

\* ---------------------------------------------------------------- C4
\* C4: open() on a popup that is open enqueues nothing and leaves the popup
\* and the UI as they were, so the next flush pushes nothing on its account.
C4_OpenWhenOpenEnqueuesNothing ==
    [][\A p \in Popups :
        (lastOp' = <<"open", p>> /\ is_open[p])
            => /\ queue' = queue
               /\ calls' = <<>>
               /\ UNCHANGED <<popupVars, widgetVars, uiVars, pushes, pops>>]_vars

C4_Witness ==
    \E p \in Popups :
        lastOp = <<"open", p>> /\ is_open[p] /\ pushes[p] = 1 /\ queue = <<>>

\* ---------------------------------------------------------------- C5
\* C5: close() on a popup that is closed enqueues nothing and leaves the
\* popup and the UI as they were, so the next flush neither pops the
\* restriction stack nor releases the mouse capture on its account.
C5_CloseWhenClosedEnqueuesNothing ==
    [][\A p \in Popups :
        (lastOp' = <<"close", p>> /\ ~is_open[p])
            => /\ queue' = queue
               /\ calls' = <<>>
               /\ UNCHANGED <<popupVars, widgetVars, uiVars, pushes, pops>>]_vars

C5_Witness ==
    \E p \in Popups :
        /\ lastOp = <<"close", p>> /\ ~is_open[p] /\ captured_node = p
        /\ picking_restriction_stack # <<>>

\* ---------------------------------------------------------------- C6
\* C6: a popup with stays_open=true never pushes onto or pops from the
\* restriction stack, is never on it, and no raw input event handed to it
\* enqueues anything.
C6_StaysOpenNeverTouchesStack ==
    [][\A p \in Popups :
        stays_open[p]
            => /\ pushes'[p] = pushes[p]
               /\ pops'[p] = pops[p]
               /\ (lastOp' = <<"handle_routed_message", p>>
                      => picking_restriction_stack' = picking_restriction_stack)
               /\ \A s \in ButtonStates :
                      lastOp' = <<"handle_os_event", p, s>> => queue' = queue]_vars

C6_Witness ==
    \E p \in Popups :
        /\ stays_open[p] /\ is_open[p]
        /\ lastOp = <<"handle_os_event", p, "Pressed">>
        /\ ~screen_bounds_contains(p, cursor_position)

\* ---------------------------------------------------------------- C7
\* C7: a raw mouse-input event handed to a popup enqueues a Close for it if
\* and only if the button is Pressed, the popup is the top of the
\* restriction stack, is open, has stays_open=false and the cursor is
\* outside its screen bounds; otherwise nothing is enqueued.
C7_OutsidePressEnqueuesClose ==
    [][\A p \in Popups, s \in ButtonStates :
        lastOp' = <<"handle_os_event", p, s>>
            => IF s = "Pressed" /\ OutsidePressCondition(p)
               THEN queue' = Append(queue, UiMessage(CloseData, p))
               ELSE queue' = queue]_vars

C7_Witness ==
    \E p \in Popups :
        /\ lastOp = <<"handle_os_event", p, "Pressed">>
        /\ OutsidePressCondition(p)
        /\ queue # <<>> /\ Last(queue) = UiMessage(CloseData, p)

\* ---------------------------------------------------------------- C8
OutsidePressed(p) ==
    /\ lastOp = <<"handle_os_event", p, "Pressed">>
    /\ OutsidePressCondition(p)

\* C8: after a press outside the bounds of a popup that is open, top of the
\* restriction stack and has stays_open=false, a Close for it is queued and,
\* the queue being flushed, the popup becomes closed and hidden.
C8_OutsidePressLeadsToClosed ==
    \A p \in Popups :
        /\ [](OutsidePressed(p)
                => \E i \in 1..Len(queue) : queue[i] = UiMessage(CloseData, p))
        /\ OutsidePressed(p) ~> (~is_open[p] /\ ~visibility[p])

C8_Witness ==
    \E p \in Popups :
        /\ OutsidePressed(p)
        /\ Len(queue) = 2
        /\ picking_restriction_stack = <<3 - p, p>>

\* ---------------------------------------------------------------- C9
\* C9: handling Content(new) removes the previous content exactly once when
\* it was present (not at all when absent) and links new under body exactly
\* once when new is present; with new absent nothing is linked.
C9_ContentRemovesAndLinksOnce ==
    [][\A p \in Popups, new \in ContentNodes \cup {NONE} :
        Handles(p, UiMessage(ContentData(new), p))
            => calls' =
                 (IF content[p] # NONE THEN <<<<"remove_node", content[p]>>>>
                  ELSE <<>>)
                 \o (IF new # NONE THEN <<<<"link_nodes", new, body[p]>>>>
                     ELSE <<>>)]_vars

\* ---------------------------------------------------------------- C10
\* C10: handling Open sets the desired local position from the placement,
\* the widget's actual size (w,h), the screen size (W,H) and the cursor
\* position at that moment: LeftTop (0,0); RightTop (W-w,0);
\* Center ((W-w)/2,(H-h)/2); LeftBottom (0,H-h); RightBottom (W-w,H-h);
\* Cursor the cursor position; Position(v) v.
C10_OpenResolvesPlacement ==
    [][\A p \in Popups :
        Handles(p, UiMessage(OpenData, p))
            => LET pos == desired_local_position'[p]
                   kind == placement[p][1]
                   w == actual_size[p][1]
                   h == actual_size[p][2]
                   W == screen_size[1]
                   H == screen_size[2]
               IN /\ kind = "LeftTop" => pos = <<0, 0>>
                  /\ kind = "RightTop" => pos = <<W - w, 0>>
                  /\ kind = "Center"
                        => 2 * pos[1] = W - w /\ 2 * pos[2] = H - h
                  /\ kind = "LeftBottom" => pos = <<0, H - h>>
                  /\ kind = "RightBottom" => pos = <<W - w, H - h>>
                  /\ kind = "Cursor" => pos = cursor_position
                  /\ kind = "Position" => pos = placement[p][2]]_vars

C10_Witness ==
    \E p \in Popups :
        /\ lastOp = <<"handle_routed_message", p>>
        /\ is_open[p]
        /\ calls = <<<<"push_picking_restriction", p>>>>
        /\ placement[p] = <<"LeftBottom">>
        /\ actual_size[p] = <<4, 2>>
        /\ desired_local_position[p] = <<0, 4>>
        /\ cursor_position # ZERO

\* ---------------------------------------------------------------- C11
\* C11: resolve aborts when the popup's body is not a key of the remapping
\* table; when it is a key, body becomes the mapped handle and resolve
\* completes, whether or not content is in the table.
C11_ResolveNeedsBody ==
    [][\A p \in Popups, keys \in SUBSET RemapKeys :
        lastOp' = <<"resolve", p, keys>>
            => IF body[p] \in keys
               THEN ~panicked' /\ body'[p] = NewHandle(body[p])
               ELSE panicked']_vars

C11_Witness ==
    \E p \in Popups, keys \in SUBSET RemapKeys :
        /\ lastOp = <<"resolve", p, keys>>
        /\ panicked
        /\ body[p] \notin keys
        /\ content[p] = NewHandle(BuiltContent(p))

\* ---------------------------------------------------------------- C12
\* C12: after a resolve that completes the popup's content is the mapped handle when the old
\* content is a key of the table, and absent otherwise.
C12_ResolveContentMappedOrAbsent ==
    [][\A p \in Popups, keys \in SUBSET RemapKeys :
        (lastOp' = <<"resolve", p, keys>> /\ ~panicked')
            => content'[p] = IF content[p] \in keys
                             THEN NewHandle(content[p])
                             ELSE NONE]_vars

\* ---------------------------------------------------------------- C19
\* C19: stays_open never differs from the value given to the builder, in
\* the popup and in every copy made of it.
C19_StaysOpenImmutable ==
    /\ [][stays_open' = stays_open]_vars
    /\ [](copied # <<>>
            => copied[1].stays_open = stays_open[copied[1].source])

\* ---------------------------------------------------------------- C13
\* C13: body is always a live child of the popup's own widget and content,
\* when present, is a live node of the graph and a child of body.
C13_BodyAndContentLinked ==
    \A p \in Popups :
        /\ body[p] \in nodes
        /\ parent[body[p]] = p
        /\ content[p] # NONE
              => content[p] \in nodes /\ parent[content[p]] = body[p]

\* ---------------------------------------------------------------- C15
Occurrences(stack, h) == Cardinality({i \in 1..Len(stack) : stack[i] = h})

\* C15: a popup's handle occurs at most once in the restriction stack.
C15_HandleAtMostOnceOnStack ==
    \A p \in Popups : Occurrences(picking_restriction_stack, p) <= 1

\* ---------------------------------------------------------------- C16
IsCall(op) ==
    op[1] \in {"open", "close", "handle_os_event"}

\* C16: open(), close() and handle_os_event leave is_open, visibility, the
\* restriction stack and the captured node as they are, doing no more than
\* invalidate layout and enqueue one message; these four change only in a
\* step that handles a queued Popup message.
C16_CallsOnlyEnqueue ==
    [][/\ IsCall(lastOp')
          => /\ UNCHANGED <<is_open, visibility, picking_restriction_stack,
                            captured_node>>
             /\ \/ queue' = queue /\ calls' = <<>>
                \/ /\ Len(queue') = Len(queue) + 1
                   /\ SubSeq(queue', 1, Len(queue)) = queue
                   /\ calls' = <<<<"invalidate_layout", lastOp'[2]>>>>
       /\ <<is_open, visibility, picking_restriction_stack, captured_node>>'
             # <<is_open, visibility, picking_restriction_stack, captured_node>>
          => /\ lastOp'[1] = "handle_routed_message"
             /\ queue # <<>>
             /\ Head(queue).data[1] = "Popup"]_vars

C16_Witness ==
    \E p \in Popups :
        /\ lastOp = <<"handle_os_event", p, "Pressed">>
        /\ calls = <<<<"invalidate_layout", p>>>>
        /\ is_open[p] /\ visibility[p]
        /\ picking_restriction_stack = <<p>>
        /\ queue = <<UiMessage(CloseData, p)>>

\* ---------------------------------------------------------------- C18
Released(cs) ==
    \E i \in 1..Len(cs) : cs[i] = <<"release_mouse_capture">>

\* C18: handling Close releases the mouse capture if and only if this popup
\* is the captured node; afterwards the popup does not hold the capture and
\* a capture held by another node is unchanged.
C18_CloseReleasesOwnCapture ==
    [][\A p \in Popups :
        Handles(p, UiMessage(CloseData, p))
            => /\ Released(calls') <=> captured_node = p
               /\ captured_node' # p
               /\ captured_node # p => captured_node' = captured_node]_vars

C18_Witness ==
    \E p \in Popups :
        /\ lastOp = <<"handle_routed_message", p>>
        /\ Released(calls)
        /\ captured_node = NONE
        /\ ~is_open[p]
        /\ pops[p] = 1

\* ---------------------------------------------------------------- C14
\* C14: a built popup starts closed and hidden, and however it is driven
\* is_open is true exactly when the widget is visible.
C14_OpenIffVisible ==
    \A p \in Popups :
        /\ is_open[p] = visibility[p]
        /\ lastOp[1] = "build" => ~is_open[p] /\ ~visibility[p]

C14_Witness ==
    \E p \in Popups :
        /\ lastOp = <<"set_placement", p>>
        /\ placement[p] = <<"RightBottom">>
        /\ is_open[p] /\ visibility[p]
        /\ ~is_open[3 - p] /\ ~visibility[3 - p] /\ pops[3 - p] = 1

\* ---------------------------------------------------------------- C17
\* C17: handling Placement(pl) sets placement to pl and invalidates layout
\* and changes nothing else; an open popup keeps its desired position.
C17_PlacementOnlySetsPlacement ==
    [][\A p \in Popups, pl \in SetPlacements :
        Handles(p, UiMessage(PlacementData(pl), p))
            => /\ placement' = [placement EXCEPT ![p] = pl]
               /\ calls' = <<<<"invalidate_layout", p>>>>
               /\ queue' = Tail(queue)
               /\ UNCHANGED <<stays_open, is_open, content, body, widgetVars,
                              screen_size, cursor_position,
                              picking_restriction_stack, captured_node,
                              graphVars>>]_vars

C17_Witness ==
    \E p \in Popups :
        /\ lastOp = <<"handle_routed_message", p>>
        /\ calls = <<<<"invalidate_layout", p>>>>
        /\ is_open[p]
        /\ placement[p] = <<"RightBottom">>
        /\ desired_local_position[p] = ZERO
        /\ PlacementPosition(placement[p], actual_size[p], screen_size,
                             cursor_position) # ZERO

\* ---------------------------------------------------------------- C20
\* C20: with callers respecting LIFO nesting, the Close handler of a popup
\* removes no restriction-stack entry of another overlay: every entry that
\* is not the popup's own stays on the stack, in place.
C20_CloseKeepsOtherEntries ==
    [][\A p \in Popups :
        Handles(p, UiMessage(CloseData, p))
            => \A i \in 1..Len(picking_restriction_stack) :
                  picking_restriction_stack[i] # p
                     => /\ i <= Len(picking_restriction_stack')
                        /\ picking_restriction_stack'[i]
                              = picking_restriction_stack[i]]_vars

====
